---- MODULE Spec2Model ----
(***************************************************************************)
(* Model of the shared-file crate (src/src/lib.rs): SharedFile<F>, a       *)
(* cheaply clone-able File wrapper whose instances share one underlying    *)
(* File and each keep a private seek position `pos`.                       *)
(*                                                                         *)
(* Integers are scaled: the signed 64-bit maximum is I64Max, the unsigned  *)
(* 64-bit maximum is U64Max = 2*I64Max + 1, and unsigned arithmetic wraps  *)
(* modulo U64Max + 1.                                                      *)
(***************************************************************************)
EXTENDS Integers, Sequences, FiniteSets, TLC

\* ------------------------------------------------------------------ bounds
\* Scaled i64::MAX (the real value is 2^63 - 1).
I64Max == 7
\* Largest file length explored.
MaxLen == 3
\* Number of cursor instances that may ever be created.
MaxCursors == 2
\* Largest read buffer length explored.
MaxBuf == 2

I64Min == -I64Max - 1
U64Max == 2 * I64Max + 1
U64 == 0..U64Max
I64 == I64Min..I64Max

Cursors == 1..MaxCursors
\* An id no cursor has.
NoCursor == MaxCursors + 1

\* The bytes the tests write to the file ("hello world"), as characters.
Hello == <<"h", "e", "l", "l", "o", " ", "w", "o", "r", "l", "d">>

Min(a, b) == IF a < b THEN a ELSE b

\* Absolute offsets given to SeekFrom::Start.
StartArgs == {0, MaxLen, I64Max, U64Max}
\* Signed offsets given to SeekFrom::End and SeekFrom::Current.
Deltas == {I64Min, -1, 0, 1, I64Max}
\* Buffer lengths given to read.
BufLens == {0, 1, MaxBuf}

VARIABLES
    content,    \* the bytes of the underlying File (fixed while cursors exist)
    ospos,      \* the File's own OS-level position (left by the caller's writes)
    mode,       \* "none" | "ref" (SharedRefFile) | "arc" (SharedArcFile)
    strong,     \* Arc strong count in "arc" mode
    fileOpen,   \* whether the underlying File is still open
    status,     \* status[c]: "unused" | "live" | "dropped"
    pos,        \* pos[c]: the cursor's private position (SharedFile::pos)
    pc,         \* pc[c]: where cursor c's thread is inside an operation
    tmp,        \* tmp[c]: the locals of the operation in progress
    last        \* the operation that returned last: its arguments, the position
                \* before the call (pre; not kept for Start and drop, which do
                \* not read it) and its result

vars == <<content, ospos, mode, strong, fileOpen, status, pos, pc, tmp, last>>

fileVars == <<content, ospos>>
lifeVars == <<mode, strong, fileOpen, status>>

\* --------------------------------------------------------------- results
OkVal(v) == [ok |-> TRUE, val |-> v, err |-> "none"]
ErrOf(kind) == [ok |-> FALSE, val |-> 0, err |-> kind]

Some(v) == [some |-> TRUE, v |-> v]
None == [some |-> FALSE, v |-> 0]

\* --------------------------------------------------------- pure functions
\* u64 addition as a release build performs it (wrapping).
U64Add(a, b) == (a + b) % (U64Max + 1)

\* usize -> u64; panics (modelled as -1) when the value does not fit.
u64_from(x) == IF x \in U64 THEN x ELSE -1

\* u64 -> i64 (try_into().ok())
TryIntoI64(p) == IF p <= I64Max THEN Some(p) ELSE None
\* i64::checked_add
CheckedAdd(p, offset) == IF p + offset \in I64 THEN Some(p + offset) ELSE None
\* i64 -> u64 (try_into().ok())
TryIntoU64(p) == IF p >= 0 THEN Some(p) ELSE None

\* calc_pos with unchecked (wrapping) arithmetic.
calc_pos_wrapping(p, offset) == OkVal((p + offset) % (U64Max + 1))

\* calc_pos computed in a wider type: only the result is range-checked.
calc_pos_wide(p, offset) ==
    IF p + offset \in U64 THEN OkVal(p + offset) ELSE ErrOf("InvalidInput")

\* Add an i64 offset to a u64 position.
calc_pos(p, offset) ==
    LET signed == TryIntoI64(p)
        \* .and_then(|p: i64| p.checked_add(offset))
        sum == IF signed.some THEN CheckedAdd(signed.v, offset) ELSE None
        \* .and_then(|p| p.try_into().ok())
        r == IF sum.some THEN TryIntoU64(sum.v) ELSE None
    IN  IF r.some THEN OkVal(r.v) ELSE ErrOf("InvalidInput")

\* The bytes of the file at offsets [off, off + k).
Slice(off, k) == SubSeq(content, off + 1, off + k)

\* File::read_at(buf, offset): the outcomes the platform primitive can have
\* for a buffer of buf_len bytes.  It fails with an I/O error, or reads at
\* least one byte when the buffer is not empty and offset is before the end
\* of the file (possibly fewer than buf_len), and 0 bytes otherwise.
read_at(buf_len, offset) ==
    LET avail == IF offset < Len(content) THEN Len(content) - offset ELSE 0
        counts == IF buf_len > 0 /\ avail > 0 THEN 1..Min(buf_len, avail) ELSE {0}
    IN  {[ok |-> FALSE, n |-> 0, data |-> <<>>]}
        \cup {[ok |-> TRUE, n |-> k, data |-> Slice(offset, k)] : k \in counts}

\* File::metadata(): fails with an I/O error or reports the file's length.
metadata == {[ok |-> FALSE, len |-> 0], [ok |-> TRUE, len |-> Len(content)]}

\* read that assigns the byte count to pos instead of adding it.
read_assign(p, r) ==
    IF r.ok
    THEN [pos |-> u64_from(r.n), ret |-> OkVal(r.n), data |-> r.data]
    ELSE [pos |-> p, ret |-> ErrOf("Io"), data |-> <<>>]

\* read that reports a failed read_at as end of file.
read_swallow(p, r) ==
    IF r.ok
    THEN [pos |-> U64Add(p, u64_from(r.n)), ret |-> OkVal(r.n), data |-> r.data]
    ELSE [pos |-> p, ret |-> OkVal(0), data |-> <<>>]

\* read that forgets to advance pos.
read_stuck(p, r) ==
    IF r.ok
    THEN [pos |-> p, ret |-> OkVal(r.n), data |-> r.data]
    ELSE [pos |-> p, ret |-> ErrOf("Io"), data |-> <<>>]

\* A read done as a seek of the File followed by a plain read, which moves
\* the File's own position.
file_after_seek_read(f, offset, k) == [f EXCEPT !.ospos = U64Add(offset, k)]

\* The File after self.file.read_at(buf, offset) delivered k bytes: the
\* offset is an argument of the call, the File's content and its own
\* position are not touched.
file_after_read_at(f, offset, k) == f

\* SharedFile::read on a cursor at position p, given read_at's outcome r:
\* the new position and the returned Result.
read(p, r) ==
    IF r.ok
    THEN [pos |-> U64Add(p, u64_from(r.n)), ret |-> OkVal(r.n), data |-> r.data]
    ELSE [pos |-> p, ret |-> ErrOf("Io"), data |-> <<>>]

\* seek that range-checks SeekFrom::Start through calc_pos as well.
seek_start_checked(p, whence, arg, m) ==
    CASE whence = "Start"   -> LET r == calc_pos(arg, 0) IN
                               [pos |-> IF r.ok THEN r.val ELSE p, ret |-> r]
      [] whence = "End"     -> IF m.ok
                               THEN [pos |-> p, ret |-> calc_pos(m.len, arg)]
                               ELSE [pos |-> p, ret |-> ErrOf("Io")]
      [] whence = "Current" -> [pos |-> p, ret |-> calc_pos(p, arg)]

\* seek that stores SeekFrom::Start's offset through a narrower integer,
\* keeping only its low bits.
seek_start_truncating(p, whence, arg, m) ==
    CASE whence = "Start"   -> [pos |-> arg % (I64Max + 1), ret |-> OkVal(arg)]
      [] whence = "End"     -> IF m.ok
                               THEN [pos |-> p, ret |-> calc_pos(m.len, arg)]
                               ELSE [pos |-> p, ret |-> ErrOf("Io")]
      [] whence = "Current" -> [pos |-> p, ret |-> calc_pos(p, arg)]

\* seek that answers SeekFrom::Current(0) with the stored position directly,
\* without going through calc_pos.
seek_position_shortcut(p, whence, arg, m) ==
    CASE whence = "Start"   -> [pos |-> arg, ret |-> OkVal(arg)]
      [] whence = "End"     -> IF m.ok
                               THEN [pos |-> p, ret |-> calc_pos(m.len, arg)]
                               ELSE [pos |-> p, ret |-> ErrOf("Io")]
      [] whence = "Current" -> [pos |-> p,
                                ret |-> IF arg = 0 THEN OkVal(p) ELSE calc_pos(p, arg)]

\* SharedFile::seek on a cursor at position p; m is metadata's outcome
\* (consulted by SeekFrom::End only): the new position and the Result.
seek(p, whence, arg, m) ==
    CASE whence = "Start"   -> [pos |-> arg, ret |-> OkVal(arg)]
      [] whence = "End"     -> IF m.ok
                               THEN [pos |-> p, ret |-> calc_pos(m.len, arg)]
                               ELSE [pos |-> p, ret |-> ErrOf("Io")]
      [] whence = "Current" -> [pos |-> p, ret |-> calc_pos(p, arg)]

\* clone that copies the position.
clone_inherit(p) == [orig |-> p, new |-> p]

\* Clone for SharedFile on a cursor at position p: the position kept by the
\* original and the position of the new instance.
clone(p) == [orig |-> p, new |-> 0]

\* A handle copied without counting the new reference.
arc_copy(count) == count

\* Clone::clone(&self.file) on the Arc<File>: one more strong reference.
arc_clone(count) == count + 1

\* Dropping one Arc<File>: one strong reference fewer.
arc_drop(count) == count - 1

\* ------------------------------------------------------------------ state
NoRead == [ok |-> FALSE, n |-> 0, data |-> <<>>]
NoMeta == [ok |-> FALSE, len |-> 0]
\* acc: the bytes collected so far by a caller's read-to-end loop.
NoLocals == [op |-> "none", arg |-> 0, pre |-> 0, r |-> NoRead, m |-> NoMeta,
             acc |-> <<>>]

\* prim: the outcome of the platform primitive the operation called
\* ("none" when it calls none); calls: how many times it called it.
NoOp == [op |-> "none", c |-> NoCursor, new |-> NoCursor, arg |-> 0, pre |-> 0,
         prim |-> "none", calls |-> 0, ret |-> OkVal(0), data |-> <<>>]

Outcome(ok) == IF ok THEN "ok" ELSE "failed"

Unused == {c \in Cursors : status[c] = "unused"}
\* Instances are numbered in the order they are created.
NextId == CHOOSE c \in Unused : \A d \in Unused : c <= d

\* Cursor c exists and its thread is between operations.
Idle(c) == status[c] = "live" /\ pc[c] = "idle"

\* A position kept with the shared handle instead of in the instance.
SetPosShared(c, v) == [d \in Cursors |-> IF status[d] = "unused" /\ d # c THEN pos[d] ELSE v]

\* `self.pos = v` on instance c: pos is a field of the instance.
SetPos(c, v) == [pos EXCEPT ![c] = v]

\* A read through the File's own (shared) OS-level position.
ReadOffsetShared(c) == ospos

\* The offset read passes to read_at: the instance's own position.
ReadOffset(c) == pos[c]

Init ==
    /\ \E L \in {0, MaxLen} : content = SubSeq(Hello, 1, L)
    /\ ospos \in {0, Len(content)}
    /\ mode = "none"
    /\ strong = 0
    /\ fileOpen = TRUE
    /\ status = [c \in Cursors |-> "unused"]
    /\ pos = [c \in Cursors |-> 0]
    /\ pc = [c \in Cursors |-> "idle"]
    /\ tmp = [c \in Cursors |-> NoLocals]
    /\ last = NoOp

\* ---------------------------------------------------------------- actions
\* new that asks the File for its own position and starts the cursor there.
new_at_file_position(o) == [pos |-> o]

\* SharedFile::new(file) for a File whose own position is o: `pos: 0`.
new(o) == [pos |-> 0]

\* SharedArcFile::new_owned(file): Arc::new(file), so one strong reference,
\* and `pos: 0`.
new_owned(o) == [pos |-> 0, strong |-> 1]

\* SharedFile::new(&file)
New ==
    /\ mode \in {"none", "ref"}
    /\ Unused # {}
    /\ LET c == NextId IN
        /\ mode' = "ref"
        /\ status' = [status EXCEPT ![c] = "live"]
        /\ pos' = SetPos(c, new(ospos).pos)
        /\ last' = [NoOp EXCEPT !.op = "new", !.c = c, !.new = c]
    /\ UNCHANGED <<fileVars, strong, fileOpen, pc, tmp>>

\* SharedArcFile::new_owned(file)
NewOwned ==
    /\ mode = "none"
    /\ Unused # {}
    /\ LET c == NextId IN
        /\ mode' = "arc"
        /\ strong' = new_owned(ospos).strong
        /\ status' = [status EXCEPT ![c] = "live"]
        /\ pos' = SetPos(c, new_owned(ospos).pos)
        /\ last' = [NoOp EXCEPT !.op = "new_owned", !.c = c, !.new = c]
    /\ UNCHANGED <<fileVars, fileOpen, pc, tmp>>

\* <SharedFile as Clone>::clone(&self)
Clone(c) ==
    /\ Idle(c)
    /\ Unused # {}
    /\ LET d == NextId
           r == clone(pos[c])
       IN
        /\ status' = [status EXCEPT ![d] = "live"]
        /\ strong' = IF mode = "arc" THEN arc_clone(strong) ELSE strong
        /\ pos' = [SetPos(c, r.orig) EXCEPT ![d] = r.new]
        /\ last' = [NoOp EXCEPT !.op = "clone", !.c = c, !.new = d, !.pre = pos[c]]
    /\ UNCHANGED <<fileVars, mode, fileOpen, pc, tmp>>

\* The rest of read once read_at has returned r: the position update and
\* the return.  pre is the position when read was called.
ReadReturn(c, n, pre, r) ==
    LET out == read(pos[c], r) IN
    /\ pos' = SetPos(c, out.pos)
    /\ last' = [NoOp EXCEPT !.op = "read", !.c = c, !.arg = n, !.pre = pre,
                            !.prim = Outcome(r.ok), !.calls = 1,
                            !.ret = out.ret, !.data = out.data]

\* The rest of seek once the primitive it needs (metadata, for End) has
\* returned m.
SeekReturn(c, whence, arg, pre, m) ==
    LET out == seek(pos[c], whence, arg, m) IN
    /\ pos' = SetPos(c, out.pos)
    /\ last' = [NoOp EXCEPT !.op = whence, !.c = c, !.arg = arg, !.pre = pre,
                            !.prim = IF whence = "End" THEN Outcome(m.ok) ELSE "none",
                            !.calls = IF whence = "End" THEN 1 ELSE 0,
                            !.ret = out.ret]

\* The File once read_at, called at offset, has returned r.
FileAfterReadAt(offset, r) ==
    LET f == file_after_read_at([content |-> content, ospos |-> ospos], offset, r.n) IN
    /\ content' = f.content
    /\ ospos' = f.ospos

\* <SharedFile as Read>::read(&mut self, buf), buf.len() = n
Read(c, n) ==
    /\ Idle(c)
    /\ \E r \in read_at(n, ReadOffset(c)) :
        /\ ReadReturn(c, n, pos[c], r)
        /\ FileAfterReadAt(ReadOffset(c), r)
    /\ UNCHANGED <<lifeVars, pc, tmp>>

\* <SharedFile as Seek>::seek(&mut self, SeekFrom::Start(n))
SeekStart(c, n) ==
    /\ Idle(c)
    /\ SeekReturn(c, "Start", n, 0, NoMeta)
    /\ UNCHANGED <<fileVars, lifeVars, pc, tmp>>

\* <SharedFile as Seek>::seek(&mut self, SeekFrom::End(d))
SeekEnd(c, d) ==
    /\ Idle(c)
    /\ \E m \in metadata : SeekReturn(c, "End", d, pos[c], m)
    /\ UNCHANGED <<fileVars, lifeVars, pc, tmp>>

\* <SharedFile as Seek>::seek(&mut self, SeekFrom::Current(d))
SeekCurrent(c, d) ==
    /\ Idle(c)
    /\ SeekReturn(c, "Current", d, pos[c], NoMeta)
    /\ UNCHANGED <<fileVars, lifeVars, pc, tmp>>

\* drop(cursor): in "arc" mode the File is closed with the last reference.
Drop(c) ==
    /\ Idle(c)
    /\ status' = [status EXCEPT ![c] = "dropped"]
    /\ pos' = SetPos(c, 0)
    /\ strong' = IF mode = "arc" THEN arc_drop(strong) ELSE strong
    /\ fileOpen' = IF mode = "arc" /\ arc_drop(strong) = 0 THEN FALSE ELSE fileOpen
    /\ last' = [NoOp EXCEPT !.op = "drop", !.c = c]
    /\ UNCHANGED <<fileVars, mode, pc, tmp>>

Next ==
    \/ New
    \/ NewOwned
    \/ \E c \in Cursors : Clone(c)
    \/ \E c \in Cursors : \E n \in BufLens : Read(c, n)
    \/ \E c \in Cursors : \E n \in StartArgs : SeekStart(c, n)
    \/ \E c \in Cursors : \E d \in Deltas : SeekEnd(c, d)
    \/ \E c \in Cursors : \E d \in Deltas : SeekCurrent(c, d)
    \/ \E c \in Cursors : Drop(c)

Spec == Init /\ [][Next]_vars

\* ------------------------------------------------- one thread per cursor
\* Each cursor is driven by its own thread, and the steps of different
\* threads interleave.  A step is one access to what the threads share (the
\* File, through read_at or metadata; the Arc count) or the thread-local
\* rest of an operation.

\* read, first step: the read_at call.
ReadAtStep(c, n) ==
    /\ Idle(c)
    /\ \E r \in read_at(n, ReadOffset(c)) :
        /\ tmp' = [tmp EXCEPT ![c] = [NoLocals EXCEPT !.op = "read", !.arg = n,
                                                      !.pre = pos[c], !.r = r]]
        /\ FileAfterReadAt(ReadOffset(c), r)
    /\ pc' = [pc EXCEPT ![c] = "read_at"]
    /\ UNCHANGED <<lifeVars, pos, last>>

\* read, second step: `self.pos += ...; Ok(bytes_read)` or the early return.
ReadFinish(c) ==
    /\ status[c] = "live" /\ pc[c] = "read_at"
    /\ ReadReturn(c, tmp[c].arg, tmp[c].pre, tmp[c].r)
    /\ pc' = [pc EXCEPT ![c] = "idle"]
    /\ tmp' = [tmp EXCEPT ![c] = NoLocals]
    /\ UNCHANGED <<fileVars, lifeVars>>

\* seek from End, first step: the metadata call.
MetadataStep(c, d) ==
    /\ Idle(c)
    /\ \E m \in metadata :
        tmp' = [tmp EXCEPT ![c] = [NoLocals EXCEPT !.op = "End", !.arg = d,
                                                   !.pre = pos[c], !.m = m]]
    /\ pc' = [pc EXCEPT ![c] = "metadata"]
    /\ UNCHANGED <<fileVars, lifeVars, pos, last>>

\* seek from End, second step: calc_pos and the return.
SeekEndFinish(c) ==
    /\ status[c] = "live" /\ pc[c] = "metadata"
    /\ SeekReturn(c, "End", tmp[c].arg, tmp[c].pre, tmp[c].m)
    /\ pc' = [pc EXCEPT ![c] = "idle"]
    /\ tmp' = [tmp EXCEPT ![c] = NoLocals]
    /\ UNCHANGED <<fileVars, lifeVars>>

\* Arguments the threads use.
ThreadBufLens == {MaxBuf}
ThreadStarts == {0}
ThreadDeltas == {-1}

NextThreads ==
    \/ NewOwned
    \/ \E c \in Cursors : Clone(c)
    \/ \E c \in Cursors : \E n \in ThreadBufLens : ReadAtStep(c, n)
    \/ \E c \in Cursors : ReadFinish(c)
    \/ \E c \in Cursors : \E n \in ThreadStarts : SeekStart(c, n)
    \/ \E c \in Cursors : \E d \in ThreadDeltas : MetadataStep(c, d)
    \/ \E c \in Cursors : SeekEndFinish(c)
    \/ \E c \in Cursors : \E d \in ThreadDeltas : SeekCurrent(c, d)

SpecThreads == Init /\ [][NextThreads]_vars

\* -------------------------------------------------------- reading to the end
\* A caller reads a cursor to the end, as read_to_string does in the tests:
\* it calls read with a non-empty buffer until a call returns Ok(0) or an
\* error, collecting the bytes.  The loops of different cursors interleave.
LoopStarts == {0, 1}
LoopBufLens == BufLens \ {0}

\* The loop begins on cursor c.
ReadToEndBegin(c) ==
    /\ Idle(c)
    /\ pc' = [pc EXCEPT ![c] = "read_to_end"]
    /\ tmp' = [tmp EXCEPT ![c] = [NoLocals EXCEPT !.op = "read_to_end", !.pre = pos[c]]]
    /\ UNCHANGED <<fileVars, lifeVars, pos, last>>

\* One iteration: a read call with a buffer of n bytes.
ReadToEndStep(c, n) ==
    /\ status[c] = "live" /\ pc[c] = "read_to_end"
    /\ \E r \in read_at(n, ReadOffset(c)) :
        LET out == read(pos[c], r)
            more == out.ret.ok /\ out.ret.val > 0
            acc == tmp[c].acc \o out.data
        IN
        /\ pos' = SetPos(c, out.pos)
        /\ pc' = [pc EXCEPT ![c] = IF more THEN "read_to_end" ELSE "idle"]
        /\ tmp' = [tmp EXCEPT ![c] = IF more
                                     THEN [tmp[c] EXCEPT !.acc = acc]
                                     ELSE NoLocals]
        /\ last' = IF more
                   THEN last
                   ELSE [NoOp EXCEPT !.op = "read_to_end", !.c = c,
                                     !.pre = tmp[c].pre,
                                     !.prim = Outcome(r.ok),
                                     !.ret = IF out.ret.ok THEN OkVal(Len(acc))
                                                           ELSE out.ret,
                                     !.data = acc]
        /\ FileAfterReadAt(ReadOffset(c), r)
    /\ UNCHANGED lifeVars

NextReadToEnd ==
    \/ New
    \/ NewOwned
    \/ \E c \in Cursors : Clone(c)
    \/ \E c \in Cursors : \E n \in LoopStarts : SeekStart(c, n)
    \/ \E c \in Cursors : ReadToEndBegin(c)
    \/ \E c \in Cursors : \E n \in LoopBufLens : ReadToEndStep(c, n)

SpecReadToEnd == Init /\ [][NextReadToEnd]_vars

\* ------------------------------------------------------ calc_pos on its own
\* calc_pos applied to a base b (any u64) and an offset d (any i64).
CalcPosCall(b, d) ==
    /\ last' = [NoOp EXCEPT !.op = "calc_pos", !.pre = b, !.arg = d,
                            !.ret = calc_pos(b, d)]
    /\ UNCHANGED <<fileVars, lifeVars, pos, pc, tmp>>

NextCalcPos == \E b \in U64 : \E d \in I64 : CalcPosCall(b, d)

SpecCalcPos == Init /\ [][NextCalcPos]_vars

\* ----------------------------------------------------------------- claims
FileLen == Len(content)
Seeks == {"Start", "End", "Current"}
NoSeek == [whence |-> "none", off |-> 0]

\* The successful seek on cursor c that is the operation that returned
\* last, if there is one.
PriorOf(c) ==
    IF last.c = c /\ last.op \in Seeks /\ last.ret.ok
    THEN [whence |-> last.op, off |-> last.ret.val]
    ELSE NoSeek

\* C1: a successful seek from End with delta arg on a file of length L
\* returns L + arg and leaves the cursor's stored position at L + arg.
C1_SeekEndStoresPosition ==
    (last.op = "End" /\ last.ret.ok) =>
        /\ last.ret.val = FileLen + last.arg
        /\ pos[last.c] = FileLen + last.arg

\* C2: a successful seek from Current with delta arg on a cursor at position
\* pre returns pre + arg and leaves the stored position at pre + arg.
C2_SeekCurrentStoresPosition ==
    (last.op = "Current" /\ last.ret.ok) =>
        /\ last.ret.val = last.pre + last.arg
        /\ pos[last.c] = last.pre + last.arg

\* C3: a successful read that follows a successful seek (of any kind) that
\* returned offset p returns the file's bytes starting at p: the bytes at
\* [p, p + k), at least one of them when the buffer is not empty and p is
\* before the end of the file.
C3_SeekHonouredByNextRead ==
    [][(last'.op = "read" /\ last'.ret.ok /\ PriorOf(last'.c).whence # "none") =>
          LET p == PriorOf(last'.c).off
              k == last'.ret.val
          IN  /\ last'.data = Slice(p, k)
              /\ (last'.arg > 0 /\ p < FileLen) => k >= 1]_vars

C5_ReadAdvancesByCount ==
    (last.op = "read" /\ last.ret.ok) =>
        LET k == last.ret.val IN
        /\ k \in 0..last.arg
        /\ Len(last.data) = k
        /\ last.data = Slice(last.pre, k)
        /\ pos[last.c] = last.pre + k
        /\ (last.pre >= FileLen) => (k = 0 /\ pos[last.c] = last.pre)

C5_Witness ==
    /\ last.op = "read" /\ last.ret.ok
    /\ last.pre > 0 /\ last.ret.val > 0 /\ last.ret.val < last.arg

\* C6: cloning a cursor at position pre gives a new live cursor at position
\* 0 and leaves the original at pre.
C6_CloneResetsPosition ==
    (last.op = "clone") =>
        /\ last.new # last.c
        /\ status[last.new] = "live"
        /\ pos[last.new] = 0
        /\ pos[last.c] = last.pre

C6_Witness == last.op = "clone" /\ last.pre > 0 /\ pos[last.c] > 0

\* C7: a seek from Current or End (whose length query succeeded) with a delta
\* that takes the position below zero or above I64Max fails with
\* InvalidInput and leaves the position as it was.
C7_SeekOutOfRangeRejected ==
    (last.op \in {"End", "Current"} /\ last.prim # "failed") =>
        LET base == IF last.op = "End" THEN FileLen ELSE last.pre
            target == base + last.arg
        IN  (target < 0 \/ target > I64Max) =>
                /\ last.ret = ErrOf("InvalidInput")
                /\ pos[last.c] = last.pre

C7_Witness ==
    /\ last.op = "Current" /\ last.pre > 0 /\ last.pre <= I64Max
    /\ last.pre + last.arg > I64Max
    /\ last.ret.err = "InvalidInput"

\* C8: seek from Start(n) returns Ok(n) and sets the position to n, whatever
\* the position and the file length were (so also right after another
\* Start(n)); when n is at or past the end of the file the read that follows
\* leaves the position at n and, if read_at succeeds, returns 0 bytes.
C8_SeekStartUnconditional ==
    [][/\ (last'.op = "Start") =>
            (last'.ret = OkVal(last'.arg) /\ pos'[last'.c] = last'.arg)
       /\ (last'.op = "read" /\ PriorOf(last'.c).whence = "Start"
           /\ PriorOf(last'.c).off >= FileLen) =>
            /\ pos'[last'.c] = PriorOf(last'.c).off
            /\ last'.ret.ok => (last'.ret.val = 0 /\ last'.data = <<>>)]_vars

C8_Witness ==
    /\ last.op = "read" /\ last.ret.ok /\ last.arg > 0
    /\ last.pre = U64Max /\ pos[last.c] = U64Max /\ FileLen > 0

\* C9: with one thread per cursor and their steps interleaved, every read is
\* addressed by the cursor's own position: while a read or a length query is
\* in flight no other thread moves the cursor, the bytes read_at delivered
\* are the file's bytes at the cursor's own position (at least one when the
\* buffer is not empty and the position is before the end), and each
\* operation returns, and leaves the position, as it does when run alone.
C9_ThreadsDoNotInterfere ==
    /\ \A c \in Cursors :
          /\ pc[c] # "idle" => pos[c] = tmp[c].pre
          /\ (pc[c] = "read_at" /\ tmp[c].r.ok) =>
                /\ tmp[c].r.n \in 0..tmp[c].arg
                /\ tmp[c].r.data = Slice(tmp[c].pre, tmp[c].r.n)
                /\ (tmp[c].arg > 0 /\ tmp[c].pre < FileLen) => tmp[c].r.n >= 1
          /\ (pc[c] = "metadata" /\ tmp[c].m.ok) => tmp[c].m.len = FileLen
    /\ (last.op = "read") =>
          /\ pos[last.c] = last.pre + (IF last.ret.ok THEN last.ret.val ELSE 0)
          /\ last.ret.ok =>
                /\ last.data = Slice(last.pre, last.ret.val)
                /\ (last.arg > 0 /\ last.pre < FileLen) => last.ret.val >= 1
    /\ (last.op \in {"End", "Current"}) =>
          /\ pos[last.c] = last.pre
          /\ last.ret.ok =>
                last.ret.val = last.arg + (IF last.op = "End" THEN FileLen ELSE last.pre)
    /\ (last.op = "Start") => (pos[last.c] = last.arg /\ last.ret = OkVal(last.arg))

C9_Witness ==
    /\ last.op = "read" /\ last.ret.ok /\ last.ret.val > 0
    /\ \E d \in Cursors :
          /\ d # last.c /\ pc[d] = "read_at"
          /\ tmp[d].r.ok /\ tmp[d].r.n > 0
          /\ tmp[d].pre # last.pre

\* C10: when the primitive an operation calls fails (read_at in read,
\* metadata in seek from End), the operation returns the I/O error after
\* that one call and the position is the one before the call.
C10_FailureLeavesPosition ==
    (last.prim = "failed") =>
        /\ last.op \in {"read", "End"}
        /\ last.ret = ErrOf("Io")
        /\ last.calls = 1
        /\ pos[last.c] = last.pre

C10_Witness ==
    /\ last.op = "read" /\ last.prim = "failed"
    /\ last.arg > 0 /\ last.pre > 0 /\ last.pre < FileLen

LiveCursors == {c \in Cursors : status[c] = "live"}

\* C11: in shared-owned mode the strong count is the number of live cursors
\* (clone adds one, drop takes one away), the File is open exactly while
\* the count is positive, so every live cursor (and every read) has an open
\* File, and once closed the File is neither reopened nor closed again.
C11_FileClosedWithLastCursor ==
    [][(mode' = "arc") =>
          /\ strong' = Cardinality(LiveCursors')
          /\ fileOpen' = (strong' > 0)
          /\ \A c \in Cursors : status'[c] = "live" => fileOpen'
          /\ (last'.op = "read") => fileOpen
          /\ (last'.op = "clone") => strong' = strong + 1
          /\ (last'.op = "drop") => strong' = strong - 1
          /\ (fileOpen /\ ~fileOpen') =>
                (last'.op = "drop" /\ LiveCursors = {last'.c})
          /\ (mode = "arc" /\ ~fileOpen) => (~fileOpen' /\ LiveCursors' = {})]_vars

C11_Witness ==
    /\ mode = "arc" /\ ~fileOpen /\ strong = 0
    /\ last.op = "drop"
    /\ \A c \in Cursors : status[c] = "dropped"

\* C12: a read-to-end loop started at position pre <= L terminates: every
\* call that does not end it moves the position forward, by the number of
\* bytes it delivered, and the position never passes L, so the loop makes at
\* most L - pre + 1 calls.  While it runs the bytes collected are the
\* file's bytes at [pre, pos); when it ends with Ok they are the file's
\* bytes at [pre, L) and the position is L.
C12_ReadToEndComplete ==
    [][/\ \A c \in Cursors :
            (pc'[c] = "read_to_end" /\ tmp'[c].pre <= FileLen) =>
                /\ pos'[c] = tmp'[c].pre + Len(tmp'[c].acc)
                /\ pos'[c] <= FileLen
                /\ tmp'[c].acc = Slice(tmp'[c].pre, Len(tmp'[c].acc))
                /\ (pc[c] = "read_to_end" /\ tmp'[c] # tmp[c]) =>
                      (pos'[c] > pos[c] /\ Len(tmp'[c].acc) > Len(tmp[c].acc))
       /\ \A c \in Cursors :
            (pc[c] = "read_to_end" /\ pc'[c] = "idle" /\ tmp[c].pre <= FileLen) =>
                /\ last'.op = "read_to_end" /\ last'.c = c /\ last'.pre = tmp[c].pre
                /\ pos'[c] = pos[c]
                /\ last'.data = Slice(last'.pre, pos'[c] - last'.pre)
                /\ last'.ret.ok =>
                      /\ last'.data = Slice(last'.pre, FileLen - last'.pre)
                      /\ last'.ret.val = FileLen - last'.pre
                      /\ pos'[c] = FileLen]_vars

C12_Witness ==
    /\ mode = "arc" /\ FileLen > 0
    /\ last.op = "read_to_end" /\ last.ret.ok /\ last.c # 1
    /\ last.pre = 0 /\ last.data = content
    /\ \A c \in Cursors : status[c] = "live" /\ pc[c] = "idle" /\ pos[c] = FileLen

\* C13: calc_pos(b, d) is Ok(b + d) exactly when b <= I64Max and
\* 0 <= b + d <= I64Max, and the InvalidInput error in every other case
\* (so also for b > I64Max with a negative d that makes b + d a valid
\* offset); the value returned is never a wrapped sum.
C13_CalcPosExact ==
    (last.op = "calc_pos") =>
        LET b == last.pre
            d == last.arg
        IN  IF b <= I64Max /\ 0 <= b + d /\ b + d <= I64Max
            THEN last.ret = OkVal(b + d)
            ELSE last.ret = ErrOf("InvalidInput")

C13_Witness ==
    /\ last.op = "calc_pos" /\ last.pre > I64Max /\ last.arg < 0
    /\ last.pre + last.arg \in 0..I64Max
    /\ last.ret = ErrOf("InvalidInput")

C15_FileNeverModified ==
    [][/\ content' = content
       /\ Len(content') = Len(content)
       /\ ospos' = ospos
       /\ (last'.op \in {"new", "new_owned", "clone", "Start", "Current"}) =>
             (last'.prim = "none" /\ last'.calls = 0)
       /\ (last'.op \in {"read", "End"}) =>
             (last'.prim \in {"ok", "failed"} /\ last'.calls = 1)]_vars

C15_Witness ==
    /\ last.op = "read" /\ last.ret.ok /\ last.ret.val > 0
    /\ ospos = Len(content)
    /\ pos[last.c] # ospos
    /\ \E c \in Cursors : c # last.c /\ status[c] = "live" /\ pos[c] > I64Max

\* C16: new and new_owned always return a cursor (they return Self, not a
\* Result), call no primitive, leave the file as it is and give the cursor
\* position 0 whatever the File's own position is; a successful read that
\* follows directly on the new cursor is addressed at offset 0 and returns
\* the first bytes of the file, at least one when the buffer and the file
\* are not empty.
C16_NewStartsAtZero ==
    [][/\ (last'.op \in {"new", "new_owned"} /\ last' # last) =>
             /\ status'[last'.c] = "live"
             /\ pos'[last'.c] = 0
             /\ last'.prim = "none" /\ last'.calls = 0
             /\ last'.ret.ok
             /\ content' = content /\ ospos' = ospos
             /\ fileOpen'
       /\ (last.op \in {"new", "new_owned"} /\ last'.op = "read"
           /\ last'.c = last.c /\ last'.ret.ok) =>
             /\ last'.pre = 0
             /\ last'.data = SubSeq(content, 1, last'.ret.val)
             /\ pos'[last'.c] = last'.ret.val
             /\ (last'.arg > 0 /\ Len(content) > 0) => last'.ret.val >= 1]_vars

C16_Witness ==
    /\ last.op = "new"
    /\ Len(content) > 0 /\ ospos = Len(content)
    /\ status[last.c] = "live" /\ pos[last.c] = 0

\* C17: a seek from Current with offset 0 on a cursor at position p returns
\* Ok(p) when p <= I64Max and Err(InvalidInput) when p > I64Max; in both
\* cases every cursor's position, the file and the handle are as before,
\* and no primitive is called.
C17_CurrentZeroQueriesPosition ==
    [][(last'.op = "Current" /\ last'.arg = 0) =>
          LET p == pos[last'.c] IN
          /\ last'.pre = p
          /\ last'.ret = IF p <= I64Max THEN OkVal(p) ELSE ErrOf("InvalidInput")
          /\ pos' = pos
          /\ content' = content /\ ospos' = ospos
          /\ mode' = mode /\ strong' = strong /\ fileOpen' = fileOpen
          /\ status' = status
          /\ last'.prim = "none"]_vars

C17_Witness ==
    /\ last.op = "Current" /\ last.arg = 0
    /\ last.pre > I64Max
    /\ last.ret = ErrOf("InvalidInput")
    /\ pos[last.c] = last.pre

====
